---- MODULE Spec2Model ----
(***************************************************************************)
(* A model of nlp_super_app.py: a Streamlit script that runs one of ten    *)
(* NLP tasks per button click and loads its inference engines through      *)
(* get_pipeline, a function memoised by @st.cache_resource.                *)
(*                                                                         *)
(* One Streamlit process serves several browser sessions; every session    *)
(* runs the script in a thread of its own, so the resource cache behind    *)
(* get_pipeline is the one piece of state the sessions share.  The model   *)
(* keeps, per session, the position of its current script run, and, shared,*)
(* the resource cache and the per-key compute locks of st.cache_resource.  *)
(*                                                                         *)
(* st.cache_resource (the decorator of line 14) is modelled by what its    *)
(* wrapper does on a call: read the cache under the argument key; on a     *)
(* miss take the lock of that key, read again, call the function, store    *)
(* the value and release the lock.  An exception of the function leaves    *)
(* the cache untouched and releases the lock.                              *)
(***************************************************************************)
EXTENDS Integers, Sequences, FiniteSets, TLC

\* ------------------------------------------------------------- bounds
NumSessions == 2
MaxClicks == 3

Sessions == 1..NumSessions
NoSession == 0

\* ------------------------------------------------------ the task list
Sentiment == "Sentiment Analysis"
Summarization == "Text Summarization"
NER == "Named Entity Recognition (NER)"
Translation == "Translation (Multilingual)"
QuestionAnswering == "Question Answering"
Grammar == "Grammar Correction"
Classification == "Text Classification"
LanguageDetection == "Language Detection"
KeywordExtraction == "Keyword Extraction"
DocumentChat == "Chat with a Document (RAG-based)"

tasks ==
  { Sentiment, Summarization, NER, Translation, QuestionAnswering, Grammar,
    Classification, LanguageDetection, KeywordExtraction, DocumentChat }

\* The branches that read two inputs (context/doc and question/query).
TwoFieldTasks == { QuestionAnswering, DocumentChat }

\* ------------------------------------------------------- translation
NoPair == "-"

PairNames ==
  { "English to French", "English to German", "English to Spanish",
    "English to Hindi", "French to English", "German to English",
    "Spanish to English", "Hindi to English" }

lang_pairs_dup(p) ==
  CASE p = "English to French" -> "Helsinki-NLP/opus-mt-en-fr"
    [] p = "English to German" -> "Helsinki-NLP/opus-mt-en-fr"
    [] p = "English to Spanish" -> "Helsinki-NLP/opus-mt-en-es"
    [] p = "English to Hindi" -> "Helsinki-NLP/opus-mt-en-hi"
    [] p = "French to English" -> "Helsinki-NLP/opus-mt-fr-en"
    [] p = "German to English" -> "Helsinki-NLP/opus-mt-de-en"
    [] p = "Spanish to English" -> "Helsinki-NLP/opus-mt-es-en"
    [] p = "Hindi to English" -> "Helsinki-NLP/opus-mt-hi-en"

lang_pairs(p) ==
  CASE p = "English to French" -> "Helsinki-NLP/opus-mt-en-fr"
    [] p = "English to German" -> "Helsinki-NLP/opus-mt-en-de"
    [] p = "English to Spanish" -> "Helsinki-NLP/opus-mt-en-es"
    [] p = "English to Hindi" -> "Helsinki-NLP/opus-mt-en-hi"
    [] p = "French to English" -> "Helsinki-NLP/opus-mt-fr-en"
    [] p = "German to English" -> "Helsinki-NLP/opus-mt-de-en"
    [] p = "Spanish to English" -> "Helsinki-NLP/opus-mt-es-en"
    [] p = "Hindi to English" -> "Helsinki-NLP/opus-mt-hi-en"

\* ---------------------------------------------------- text and strip
\* A text is a sequence of characters; " " stands for any whitespace.
Whitespace == { " " }

Texts == { <<>>, <<" ">>, <<"a">> }

RECURSIVE LStrip(_)
LStrip(t) ==
  IF t # <<>> /\ Head(t) \in Whitespace THEN LStrip(Tail(t)) ELSE t

RECURSIVE RStrip(_)
RStrip(t) ==
  IF t # <<>> /\ t[Len(t)] \in Whitespace
    THEN RStrip(SubSeq(t, 1, Len(t) - 1))
    ELSE t

StripNothing(t) == t

\* str.strip(): leading and trailing whitespace removed.
Strip(t) == RStrip(LStrip(t))

\* Python truthiness of a str: non-empty.
Truthy(t) == t # <<>>

\* ----------------------------------------------------------- requests
\* What one button click hands to the script: the selected task, the
\* selected language pair (translation only) and the contents of the inputs
\* the branch reads.  An input the branch does not show is the empty text.
NoTask == "-"

NoReq ==
  [task |-> NoTask, pair |-> NoPair, text |-> <<>>, context |-> <<>>,
   question |-> <<>>]

Requests ==
  { [task |-> t, pair |-> NoPair, text |-> x, context |-> <<>>,
     question |-> <<>>] :
      t \in (tasks \ TwoFieldTasks) \ {Translation}, x \in Texts }
  \cup
  { [task |-> Translation, pair |-> p, text |-> x, context |-> <<>>,
     question |-> <<>>] : p \in PairNames, x \in Texts }
  \cup
  { [task |-> t, pair |-> NoPair, text |-> <<>>, context |-> c,
     question |-> q] : t \in TwoFieldTasks, c \in Texts, q \in Texts }

\* `if text.strip():`
ValidText(x) == Truthy(Strip(x))

ValidEither(c, q) == Truthy(Strip(c)) \/ Truthy(Strip(q))

\* `if context.strip() and question.strip():`
ValidBoth(c, q) == Truthy(Strip(c)) /\ Truthy(Strip(q))

\* The condition guarding the body of the clicked branch.
Valid(r) ==
  IF r.task \in TwoFieldTasks
    THEN ValidBoth(r.context, r.question)
    ELSE ValidText(r.text)

\* The st.warning of the else-branch of each task.
WarningText(t) ==
  CASE t = Sentiment -> "Please enter text to analyze."
    [] t = Summarization -> "Please enter text to summarize."
    [] t = NER -> "Please enter text for entity extraction."
    [] t = Translation -> "Please enter text to translate."
    [] t = QuestionAnswering -> "Please provide both context and question."
    [] t = Grammar -> "Please enter text for grammar correction."
    [] t = Classification -> "Please enter text for classification."
    [] t = LanguageDetection -> "Please enter text to detect language."
    [] t = KeywordExtraction -> "Please enter text to extract keywords."
    [] t = DocumentChat -> "Please provide both document and question."

\* What the body of each branch renders on success.
Rendered(t) ==
  CASE t = Sentiment -> "label, score"
    [] t = Summarization -> "summary_text"
    [] t = NER -> "entity_group, word, score list"
    [] t = Translation -> "translation_text"
    [] t = QuestionAnswering -> "answer"
    [] t = Grammar -> "generated_text"
    [] t = Classification -> "label, score"
    [] t = LanguageDetection -> "language"
    [] t = KeywordExtraction -> "word set"
    [] t = DocumentChat -> "answer"

\* ------------------------------------------------- get_pipeline calls
\* The arguments of a get_pipeline call: the positional task, the model
\* keyword (NoModel when absent) and the names of the other keywords passed.
NoModel == "None"

Call(task, model, extra) == [task |-> task, model |-> model, extra |-> extra]

NoKey == Call("-", NoModel, {})

PipelineCallAll(t, p) ==
  CASE t = Sentiment -> Call("sentiment-analysis", NoModel, {})
    [] t = Summarization -> Call("summarization", NoModel, {})
    [] t = NER -> Call("ner", NoModel, {"grouped_entities"})
    [] t = Translation -> Call("translation", lang_pairs(p), {})
    [] t = QuestionAnswering -> Call("question-answering", NoModel, {})
    [] t = Grammar ->
         Call("text2text-generation", "prithivida/grammar_error_correcter_v1", {})
    [] t = Classification -> Call("text-classification", NoModel, {})
    [] t = LanguageDetection -> Call("text-classification", NoModel, {})
    [] t = KeywordExtraction -> Call("ner", NoModel, {"grouped_entities"})
    [] t = DocumentChat -> Call("question-answering", NoModel, {})

\* The get_pipeline call of each branch; NoKey for the branch that makes
\* none (Language Detection calls langdetect's detect instead).
PipelineCall(t, p) ==
  CASE t = Sentiment -> Call("sentiment-analysis", NoModel, {})
    [] t = Summarization -> Call("summarization", NoModel, {})
    [] t = NER -> Call("ner", NoModel, {"grouped_entities"})
    [] t = Translation -> Call("translation", lang_pairs(p), {})
    [] t = QuestionAnswering -> Call("question-answering", NoModel, {})
    [] t = Grammar ->
         Call("text2text-generation", "prithivida/grammar_error_correcter_v1", {})
    [] t = Classification -> Call("text-classification", NoModel, {})
    [] t = LanguageDetection -> NoKey
    [] t = KeywordExtraction -> Call("ner", NoModel, {"grouped_entities"})
    [] t = DocumentChat -> Call("question-answering", NoModel, {})

\* The argument keys the script can pass to the cached function.  The key
\* st.cache_resource files a value under is made of the call's arguments.
Keys ==
  { PipelineCall(t, p) : t \in tasks \ {Translation, LanguageDetection},
                         p \in {NoPair} }
  \cup { PipelineCall(Translation, p) : p \in PairNames }

\* `def get_pipeline(task, model=None)`: a call binds when it passes no
\* keyword other than the declared parameters; otherwise Python raises
\* TypeError before the body runs.
Accepts(k) == k.extra = {}

\* -------------------------------------------------------------- state
VARIABLES
  menu,     \* the requests the sessions submit (fixed from Init on)
  cache,    \* the resource cache of get_pipeline: key -> handle id, 0 = absent
  lock,     \* the compute lock of each key: the session holding it, or NoSession
  pc,       \* where each session's script run stands
  req,      \* the request of each session's current (or last) run
  key,      \* the arguments of the run's get_pipeline call, NoKey before it
  hnd,      \* the handle get_pipeline returned to the run, 0 = none
  out,      \* what the run ended with
  via,      \* how the run's get_pipeline call was answered: "hit" (first read),
            \* "waited" (read under the lock), "built" (it called pipeline(...))
  sawFail,  \* a construction of the run's key failed while the run waited
  made,     \* per key, the calls of pipeline(...) so far (construction events)
  failed,   \* per key, how many of them raised
  clicks    \* button clicks so far

vars ==
  << menu, cache, lock, pc, req, key, hnd, out, via, sawFail, made, failed,
     clicks >>

shared == << cache, lock, made, failed >>

NoHandle == 0

NoOut == [status |-> "None", detail |-> ""]

\* st.success / st.info / st.write of the branch body.
Shown(t) == [status |-> "Ok", detail |-> Rendered(t)]

\* st.warning of the else-branch.
Warned(t) == [status |-> "Warning", detail |-> WarningText(t)]

\* An exception leaving the script run (no branch has a try/except).
Raised(e) == [status |-> "Raised", detail |-> e]

\* The state after the process has started: nothing cached, no lock held,
\* no session has clicked yet.
Fresh ==
  /\ cache = [k \in Keys |-> NoHandle]
  /\ lock = [k \in Keys |-> NoSession]
  /\ pc = [s \in Sessions |-> "idle"]
  /\ req = [s \in Sessions |-> NoReq]
  /\ key = [s \in Sessions |-> NoKey]
  /\ hnd = [s \in Sessions |-> NoHandle]
  /\ out = [s \in Sessions |-> NoOut]
  /\ via = [s \in Sessions |-> "none"]
  /\ sawFail = [s \in Sessions |-> FALSE]
  /\ made = [k \in Keys |-> 0]
  /\ failed = [k \in Keys |-> 0]
  /\ clicks = 0

\* The requests whose branch makes the get_pipeline call k (for NoKey: the
\* requests of the branch that makes none).
RequestsFor(k) == { r \in Requests : PipelineCall(r.task, r.pair) = k }

\* In one run of the process all sessions work with the same engine: they
\* submit requests of the task or tasks that load it (for translation, of
\* one language pair), with any contents of the inputs.
Menus == { RequestsFor(k) : k \in Keys \cup {NoKey} }

Init == menu \in Menus /\ Fresh

\* ------------------------------------------------- pieces of the steps
\* A button click starts a script run of session s with request r.
Start(s, r) ==
  /\ pc[s] \in {"idle", "done"}
  /\ clicks < MaxClicks
  /\ clicks' = clicks + 1
  /\ req' = [req EXCEPT ![s] = r]
  /\ menu' = menu
  /\ sawFail' = [sawFail EXCEPT ![s] = FALSE]

\* The run of session s ends with outcome o.
End(s, o) ==
  /\ pc' = [pc EXCEPT ![s] = "done"]
  /\ out' = [out EXCEPT ![s] = o]

\* The engine call of the branch on the handle it got, and the rendering of
\* its result.  The engine may raise; nothing catches it.
Invoke(s, t) ==
  \E o \in {Shown(t), Raised("EngineError")} : End(s, o)

LockAlwaysFree(k) == TRUE

\* The compute lock of key k can be taken.
LockFree(k) == lock[k] = NoSession

StoreNothing(c, k, h) == c

\* cache.write_result: the value is filed under the key.
Store(c, k, h) == [c EXCEPT ![k] = h]

StoreFailure(c, k) == [c EXCEPT ![k] = made[k]]

\* What a raising call leaves in the cache: nothing is written.
AfterFailure(c, k) == c

\* ------------------------------------------------------------ actions
\* Click with a blank input: the else-branch warns; get_pipeline is not
\* reached.
ClickInvalid(s) ==
  \E r \in menu :
    /\ Start(s, r)
    /\ ~Valid(r)
    /\ End(s, Warned(r.task))
    /\ key' = [key EXCEPT ![s] = NoKey]
    /\ hnd' = [hnd EXCEPT ![s] = NoHandle]
    /\ via' = [via EXCEPT ![s] = "none"]
    /\ UNCHANGED shared

\* Click on a branch that makes no get_pipeline call: detect(text), which
\* raises on a text it finds no features in.
ClickDetect(s) ==
  \E r \in menu :
    /\ Start(s, r)
    /\ Valid(r)
    /\ PipelineCall(r.task, r.pair) = NoKey
    /\ \E o \in {Shown(r.task), Raised("LangDetectException")} : End(s, o)
    /\ key' = [key EXCEPT ![s] = NoKey]
    /\ hnd' = [hnd EXCEPT ![s] = NoHandle]
    /\ via' = [via EXCEPT ![s] = "none"]
    /\ UNCHANGED shared

\* Click, and the first read of the cache finds the value: cache hit.
ClickHit(s) ==
  \E r \in menu :
    LET k == PipelineCall(r.task, r.pair) IN
    /\ Start(s, r)
    /\ Valid(r)
    /\ k # NoKey
    /\ cache[k] # NoHandle
    /\ key' = [key EXCEPT ![s] = k]
    /\ hnd' = [hnd EXCEPT ![s] = cache[k]]
    /\ via' = [via EXCEPT ![s] = "hit"]
    /\ Invoke(s, r.task)
    /\ UNCHANGED shared

\* Click, and the first read of the cache misses: the run goes for the
\* compute lock of the key.
ClickMiss(s) ==
  \E r \in menu :
    LET k == PipelineCall(r.task, r.pair) IN
    /\ Start(s, r)
    /\ Valid(r)
    /\ k # NoKey
    /\ cache[k] = NoHandle
    /\ key' = [key EXCEPT ![s] = k]
    /\ hnd' = [hnd EXCEPT ![s] = NoHandle]
    /\ via' = [via EXCEPT ![s] = "none"]
    /\ pc' = [pc EXCEPT ![s] = "wait"]
    /\ UNCHANGED << out, shared >>

\* The run takes the lock and reads again: another run stored the value
\* meanwhile.  The lock is released and the value returned.
LateHit(s) ==
  /\ pc[s] = "wait"
  /\ LockFree(key[s])
  /\ cache[key[s]] # NoHandle
  /\ hnd' = [hnd EXCEPT ![s] = cache[key[s]]]
  /\ via' = [via EXCEPT ![s] = "waited"]
  /\ Invoke(s, req[s].task)
  /\ UNCHANGED << menu, req, key, sawFail, clicks, shared >>

\* The run takes the lock, misses again and calls the function with
\* arguments it does not accept: TypeError, before pipeline(...) is reached.
\* The lock is released as the exception leaves the wrapper.
CallRejected(s) ==
  /\ pc[s] = "wait"
  /\ LockFree(key[s])
  /\ cache[key[s]] = NoHandle
  /\ ~Accepts(key[s])
  /\ End(s, Raised("TypeError"))
  /\ UNCHANGED << menu, req, key, hnd, via, sawFail, clicks, shared >>

\* The run takes the lock, misses again and starts pipeline(...).
BeginConstruct(s) ==
  /\ pc[s] = "wait"
  /\ LockFree(key[s])
  /\ cache[key[s]] = NoHandle
  /\ Accepts(key[s])
  /\ lock' = [lock EXCEPT ![key[s]] = s]
  /\ made' = [made EXCEPT ![key[s]] = @ + 1]
  /\ via' = [via EXCEPT ![s] = "built"]
  /\ pc' = [pc EXCEPT ![s] = "construct"]
  /\ UNCHANGED << menu, cache, failed, req, key, hnd, out, sawFail, clicks >>

\* pipeline(...) returns: the handle is stored, the lock released, the
\* handle returned, and the branch goes on to use it.
ConstructOk(s) ==
  /\ pc[s] = "construct"
  /\ cache' = Store(cache, key[s], made[key[s]])
  /\ lock' = [lock EXCEPT ![key[s]] = NoSession]
  /\ hnd' = [hnd EXCEPT ![s] = made[key[s]]]
  /\ Invoke(s, req[s].task)
  /\ UNCHANGED << menu, made, failed, req, key, via, sawFail, clicks >>

\* pipeline(...) raises (unknown or unreachable model): the lock is
\* released and the exception leaves get_pipeline and the script run.
ConstructFail(s) ==
  /\ pc[s] = "construct"
  /\ cache' = AfterFailure(cache, key[s])
  /\ lock' = [lock EXCEPT ![key[s]] = NoSession]
  /\ failed' = [failed EXCEPT ![key[s]] = @ + 1]
  /\ sawFail' =
       [t \in Sessions |->
          sawFail[t] \/ (t # s /\ pc[t] = "wait" /\ key[t] = key[s])]
  /\ End(s, Raised("EngineLoadError"))
  /\ UNCHANGED << menu, made, req, key, hnd, via, clicks >>

Next ==
  \E s \in Sessions :
    \/ ClickInvalid(s)
    \/ ClickDetect(s)
    \/ ClickHit(s)
    \/ ClickMiss(s)
    \/ LateHit(s)
    \/ CallRejected(s)
    \/ BeginConstruct(s)
    \/ ConstructOk(s)
    \/ ConstructFail(s)

Spec == Init /\ [][Next]_vars

\* ============================================================ claims
\* Vocabulary of the claims, stated without the definitions of the model.

\* A text is blank when it is empty or whitespace only.
IsBlank(t) == \A i \in 1..Len(t) : t[i] \in Whitespace

\* Some input the task requires is missing or blank.
BlankField(r) ==
  IF r.task \in TwoFieldTasks
    THEN IsBlank(r.context) \/ IsBlank(r.question)
    ELSE IsBlank(r.text)

Submitted(s) == req[s] # NoReq

\* The run of session s touched nothing of the Pipeline Cache.
NoEngine(s) == key[s] = NoKey /\ hnd[s] = NoHandle /\ via[s] = "none"

\* Session s takes a step of its run (anything of its own changes).
Moves(s) ==
  << pc[s], req[s], key[s], hnd[s], out[s], via[s] >>
    # << pc'[s], req'[s], key'[s], hnd'[s], out'[s], via'[s] >>

\* The sessions whose get_pipeline call for key k is calling pipeline(...).
Constructing(k) == { s \in Sessions : pc[s] = "construct" /\ key[s] = k }

\* ---- C1 ----------------------------------------------------------------
\* C1: for every key, as long as no construction of it has failed, the
\* sessions resolving it, in any interleaving, cause at most one call of
\* pipeline(...), exactly one once a handle was returned, and all of them
\* hold the same handle.
C1_OneConstruction ==
  \A k \in Keys :
    failed[k] = 0 =>
      /\ made[k] <= 1
      /\ \A s \in Sessions :
           (key[s] = k /\ hnd[s] # NoHandle) => (made[k] = 1 /\ hnd[s] = cache[k])
      /\ \A s, t \in Sessions :
           (key[s] = k /\ key[t] = k /\ hnd[s] # NoHandle /\ hnd[t] # NoHandle)
             => hnd[s] = hnd[t]

\* Two sessions raced for one key: one built the engine, the other missed on
\* its first read, waited for the lock and was handed the same handle.
C1_Witness ==
  \E s, t \in Sessions :
    /\ s # t /\ key[s] = key[t] /\ key[s] # NoKey
    /\ via[s] = "built" /\ via[t] = "waited"
    /\ hnd[s] # NoHandle /\ hnd[s] = hnd[t]
    /\ made[key[s]] = 1

\* ---- C2 ----------------------------------------------------------------
\* C2: once a handle is stored for a key, no later step replaces it or
\* constructs again; every handle a run holds is the stored one; and with
\* no failed construction the key was constructed exactly once.
C2_HitsReuse ==
  [][ /\ \A k \in Keys :
           /\ cache[k] # NoHandle => (cache'[k] = cache[k] /\ made'[k] = made[k])
           /\ (cache'[k] # NoHandle /\ failed'[k] = 0) => made'[k] = 1
      /\ \A s \in Sessions :
           hnd'[s] # NoHandle => hnd'[s] = cache'[key'[s]]
      /\ \A s \in Sessions :
           via'[s] = "hit" => (hnd'[s] # NoHandle /\ hnd'[s] = cache'[key'[s]])
    ]_vars

\* The third of three clicks in a row for one key is a cache hit on the
\* handle of the only construction.
C2_Witness ==
  \E s \in Sessions :
    /\ clicks >= 3
    /\ \A t \in Sessions : pc[t] \in {"idle", "done"}
    /\ via[s] = "hit"
    /\ made[key[s]] = 1 /\ failed[key[s]] = 0
    /\ hnd[s] = cache[key[s]]
    /\ \A t \in Sessions : t # s => via[t] \in {"none", "hit"}

\* ---- C3 ----------------------------------------------------------------
\* C3: a construction that fails ends its run with the load error, leaves
\* the cache as it was, with no entry for the key and the key's lock free;
\* and a run that comes to the lock of a key whose constructions all failed
\* constructs again instead of being handed a remembered failure.
C3_FailureNotCached ==
  [][ /\ \A k \in Keys :
           failed'[k] # failed[k] =>
             /\ cache' = cache
             /\ cache'[k] = NoHandle
             /\ lock'[k] = NoSession
             /\ \E s \in Sessions :
                  /\ pc[s] = "construct" /\ key[s] = k
                  /\ pc'[s] = "done" /\ out'[s] = Raised("EngineLoadError")
      /\ \A s \in Sessions :
           (/\ pc[s] = "wait" /\ pc'[s] # "wait"
            /\ Accepts(key[s])
            /\ failed[key[s]] > 0 /\ failed[key[s]] = made[key[s]])
             => (/\ pc'[s] = "construct"
                 /\ made'[key[s]] = made[key[s]] + 1
                 /\ out'[s] = out[s])
    ]_vars

\* After a failed construction a later click for the same key (one that did
\* not wait through the failure) is constructing again.
C3_Witness ==
  \E s \in Sessions :
    /\ pc[s] = "construct"
    /\ ~sawFail[s]
    /\ failed[key[s]] = 1 /\ made[key[s]] = 2
    /\ cache[key[s]] = NoHandle

\* ---- C4 ----------------------------------------------------------------
\* C4: whatever the task, a request with a required input missing or blank
\* is answered with the branch's warning and nothing else: its run makes no
\* get_pipeline call and holds no handle, and the step that runs it leaves
\* the cache, the locks and the construction counts as they were.
C4_BlankRejected ==
  [][ /\ \A s \in Sessions :
           (Submitted(s)' /\ BlankField(req'[s])) =>
             /\ pc'[s] = "done"
             /\ out'[s].status = "Warning"
             /\ NoEngine(s)'
      /\ (\E s \in Sessions : Submitted(s)' /\ BlankField(req'[s]) /\ Moves(s))
           => UNCHANGED << cache, lock, made, failed >>
    ]_vars

\* A whitespace-only text and a Question Answering request with a
\* whitespace-only question have both been turned away with a warning.
C4_Witness ==
  \E s \in Sessions :
    /\ pc[s] = "done" /\ out[s].status = "Warning"
    /\ \/ req[s].text = <<" ">>
       \/ (req[s].task \in TwoFieldTasks /\ req[s].context = <<"a">>
           /\ req[s].question = <<" ">>)
    /\ \E k \in Keys : cache[k] # NoHandle

\* ---- C5 ----------------------------------------------------------------
\* C5: a run whose engine failed to load or failed when called does not
\* end with that failure leaving the script as an exception; it is reported
\* as a result.
C5_NeverRaises ==
  \A s \in Sessions :
    out[s].detail \in {"EngineLoadError", "EngineError"}
      => out[s].status # "Raised"

\* ---- C6 ----------------------------------------------------------------
\* C6: every request with all its required inputs filled in, whose engine
\* neither failed to load nor failed when called, ends by showing the
\* result of its task.
EnvironmentFailures ==
  { Raised("EngineLoadError"), Raised("EngineError"),
    Raised("LangDetectException") }

C6_ValidEndsOk ==
  \A s \in Sessions :
    (/\ pc[s] = "done" /\ Submitted(s) /\ ~BlankField(req[s])
     /\ out[s] \notin EnvironmentFailures)
      => (out[s].status = "Ok" /\ out[s].detail = Rendered(req[s].task))

\* ---- C7 ----------------------------------------------------------------
\* C7 as claimed: a run that was waiting for a key while a construction of
\* that key failed makes no construction of its own.
C7_WaitersShareFailure ==
  \A s \in Sessions : sawFail[s] => (pc[s] # "construct" /\ via[s] # "built")

\* C7 as amended: constructions of one key never overlap (the one in
\* progress holds the key's lock, and every earlier one failed); a load
\* error reaches only the run whose own construction raised it; and a run
\* that waited through a failure ends either after a construction of its
\* own or with a handle built after that failure.
C7_WaitersRetryInTurn ==
  /\ \A k \in Keys :
       /\ Cardinality(Constructing(k)) <= 1
       /\ \A s \in Constructing(k) : lock[k] = s /\ made[k] = failed[k] + 1
       /\ made[k] <= failed[k] + 1
  /\ \A s \in Sessions :
       out[s] = Raised("EngineLoadError") /\ pc[s] = "done" => via[s] = "built"
  /\ \A s \in Sessions :
       (sawFail[s] /\ pc[s] = "done") =>
         \/ via[s] = "built"
         \/ (via[s] = "waited" /\ hnd[s] > 1 /\ hnd[s] = cache[key[s]])
         \/ ~Accepts(key[s])

\* A run that waited through a failed construction is now constructing the
\* same key itself: the second construction of that round.
C7_Witness ==
  \E s, t \in Sessions :
    /\ s # t /\ key[s] = key[t]
    /\ sawFail[s] /\ pc[s] = "construct"
    /\ pc[t] = "done" /\ out[t] = Raised("EngineLoadError")
    /\ made[key[s]] = 2

\* ---- C8 ----------------------------------------------------------------
\* C8: a Language Detection request, blank or not, ends at once without a
\* get_pipeline call or a handle, and its step changes neither the cached
\* keys nor the construction counts nor the locks.
C8_DetectionBypassesCache ==
  [][ /\ \A s \in Sessions :
           req'[s].task = LanguageDetection => (pc'[s] = "done" /\ NoEngine(s)')
      /\ (\E s \in Sessions : req'[s].task = LanguageDetection /\ Moves(s))
           => UNCHANGED << cache, lock, made, failed >>
    ]_vars

\* A Language Detection request with a text has shown the language.
C8_Witness ==
  \E s \in Sessions :
    /\ req[s].task = LanguageDetection /\ req[s].text = <<"a">>
    /\ pc[s] = "done" /\ out[s] = Shown(LanguageDetection)
    /\ clicks >= 2

\* ---- C9 ----------------------------------------------------------------
\* C9: a translation run that passed validation calls get_pipeline with
\* exactly ("translation", lang_pairs[pair]) ("English to French" gives
\* Helsinki-NLP/opus-mt-en-fr); nothing is constructed, cached or locked
\* under any other key; the handle it holds is the one cached under that
\* key; and different pairs give different keys.
TranslationKey(p) == Call("translation", lang_pairs(p), {})

FieldsNamed(msg) ==
  CASE msg = "Please provide both context and question." -> {"context", "question"}
    [] msg = "Please provide both document and question." -> {"document", "question"}
    [] OTHER -> {"text"}

\* The one input a warning singles out as missing, if it singles one out.
MissingField(o) ==
  IF o.status = "Warning" /\ Cardinality(FieldsNamed(o.detail)) = 1
    THEN CHOOSE f \in FieldsNamed(o.detail) : TRUE
    ELSE "unspecified"

QuestionMissing(s) ==
  /\ req[s].task = QuestionAnswering
  /\ ~IsBlank(req[s].context)
  /\ IsBlank(req[s].question)

====
